---- MODULE Spec2Model ----
(***************************************************************************)
(* Model of StickyCounter (sticky_zero_counter.hpp): one atomic word       *)
(* shared by threads that call Increment, Decrement and Read.  Every       *)
(* atomic access of the word (fetch_add, fetch_sub, load,                  *)
(* compare_exchange_strong) is one step; the default memory order is       *)
(* seq_cst, so the steps of all threads interleave in one total order.     *)
(*                                                                         *)
(* The word is modelled with its layout kept and its width scaled down:    *)
(* CountBits bits of live count, then the help bit, then the is_zero bit   *)
(* (62 + 1 + 1 bits in the source), all arithmetic modulo 2^(CountBits+2). *)
(***************************************************************************)
EXTENDS Integers, Naturals, FiniteSets, Sequences, TLC

\* ---- bounds ---------------------------------------------------------------
NThreads  == 2      \* threads calling the counter
MaxInc    == 2      \* Increment calls in one history
MaxRead   == 2      \* Read calls in one history
CountBits == 3      \* width of the live count field (62 in the source)

Threads == 1..NThreads

\* ---- the word -------------------------------------------------------------
Pow2(n) == 2^n

help    == Pow2(CountBits)          \* 1ull << 62
is_zero == Pow2(CountBits + 1)      \* 1ull << 63
WordMod == Pow2(CountBits + 2)      \* uint64_t arithmetic wraps at 2^64
Words   == 0..(WordMod - 1)

RECURSIVE BitAnd(_, _)
BitAnd(a, b) ==
  IF a = 0 \/ b = 0 THEN 0
  ELSE (IF a % 2 = 1 /\ b % 2 = 1 THEN 1 ELSE 0) + 2 * BitAnd(a \div 2, b \div 2)

RECURSIVE BitOr(_, _)
BitOr(a, b) ==
  IF a = 0 THEN b
  ELSE IF b = 0 THEN a
  ELSE (IF a % 2 = 1 \/ b % 2 = 1 THEN 1 ELSE 0) + 2 * BitOr(a \div 2, b \div 2)

\* counter_.fetch_add(1) / counter_.fetch_sub(1): the value stored
FetchAdd(w) == (w + 1) % WordMod
FetchSub(w) == (w + WordMod - 1) % WordMod

\* the fields of a word
DeadBit(w)   == BitAnd(w, is_zero) # 0
HelpBit(w)   == BitAnd(w, help) # 0
LiveCount(w) == w % help

\* variant: the exchange is made without comparing
CasOk_Always(cur, expected) == TRUE

\* counter_.compare_exchange_strong(expected, desired) succeeds
CasOk(cur, expected) == cur = expected

\* variant: a clean zero is also reported as dead
IncResult_ZeroIsDead(old) ==
  IF old = 0 \/ BitAnd(old, is_zero) # 0 THEN 0 ELSE 1

\* if (counter_.fetch_add(1) & is_zero) return false; return true;
IncResult(old) == IF BitAnd(old, is_zero) # 0 THEN 0 ELSE 1

\* variant: the result of fetch_sub taken for the new value, compared to 0
SubWasLast_PreZero(old) == old = 0

\* if (counter_.fetch_sub(1) == 1)
SubWasLast(old) == old = 1

\* the left operand of && on line 74: (v | help)
WantSecondCas(x) == BitOr(x, help) # 0

\* the value Read's compare_exchange_strong stores: is_zero | help
ReadHelpWord == BitOr(is_zero, help)

\* ---- state ----------------------------------------------------------------
VARIABLES
  counter_,   \* std::atomic<uint64_t> counter_
  pc,         \* per thread: where it is inside its current call
  v,          \* per thread: the local uint64_t v of Decrement / Read
  op,         \* per thread: the call it is in, or the last one it finished
  ret,        \* per thread: the value its last finished call returned
  held,       \* ownerships granted and not yet handed to a Decrement
  nInc,       \* Increment calls so far
  nRead,      \* Read calls so far
  nDec,       \* Decrement calls started so far
  winners,    \* Decrement calls that returned true
  everDead,   \* the is_zero bit has been set in some earlier or current state
  deadInc,    \* some Increment has started after the is_zero bit had been set
  consumed,   \* Decrement CASes that replaced a word carrying the help bit
  zeroRead,   \* some Read has returned 0
  afterDead,  \* per thread, for its current/last call: 0 = it started before
              \* the is_zero bit was ever set, 1 = after, 2 = after and after
              \* an Increment that itself started after
  afterZero,  \* per thread: its current/last call started when zeroRead held
  helped,     \* per thread: a Read's CAS to is_zero|help succeeded while this
              \* thread's Decrement was between fetch_sub and its first CAS
  revived,    \* per thread: its Decrement's first CAS found a live, nonzero word
  steps,      \* per thread: atomic accesses of counter_ made by its current/last call
  seq,        \* no step so far was taken while another thread was inside a call
  quiet,      \* no Increment or Read step so far fell between the start of the
              \* first Decrement and the return of the last one
  afterRel    \* per thread: its current/last call started after Decrements had
              \* run and every ownership had been released

vars == <<counter_, pc, v, op, ret, held, nInc, nRead, nDec, winners,
          everDead, deadInc, consumed, zeroRead, afterDead, afterZero, helped,
          revived, steps, seq, quiet, afterRel>>

hist == <<nInc, nRead, nDec, deadInc>>

\* counter_{1}; the creator holds the one initial ownership
Init ==
  /\ counter_ = 1
  /\ pc = [t \in Threads |-> "idle"]
  /\ v = [t \in Threads |-> 0]
  /\ op = [t \in Threads |-> "none"]
  /\ ret = [t \in Threads |-> 0]
  /\ held = 1
  /\ nInc = 0
  /\ nRead = 0
  /\ nDec = 0
  /\ winners = 0
  /\ everDead = FALSE
  /\ deadInc = FALSE
  /\ consumed = 0
  /\ zeroRead = FALSE
  /\ afterDead = [t \in Threads |-> 0]
  /\ afterZero = [t \in Threads |-> FALSE]
  /\ helped = [t \in Threads |-> FALSE]
  /\ revived = [t \in Threads |-> FALSE]
  /\ steps = [t \in Threads |-> 0]
  /\ seq = TRUE
  /\ quiet = TRUE
  /\ afterRel = [t \in Threads |-> FALSE]

B2N(b) == IF b THEN 1 ELSE 0

\* some Decrement is between its fetch_sub and its return
DecInFlight == \E t \in Threads : pc[t] \in {"dec_cas1", "dec_cas2"}

\* every ownership granted so far has been released by a finished Decrement
AllReleased == held = 0 /\ ~DecInFlight

\* Decrements have started and not all of them have returned
InWindow == nDec > 0 /\ ~AllReleased

\* bookkeeping done at every atomic access by thread t; windowed: the access
\* belongs to an Increment or a Read
Track(t, windowed) ==
  /\ steps' = [steps EXCEPT ![t] = IF pc[t] = "idle" THEN 1 ELSE steps[t] + 1]
  /\ seq' = (seq /\ \A u \in Threads \ {t} : pc[u] = "idle")
  /\ quiet' = (quiet /\ ~(windowed /\ InWindow))
  /\ afterRel' = IF pc[t] = "idle"
                   THEN [afterRel EXCEPT ![t] = nDec > 0 /\ AllReleased]
                   ELSE afterRel

\* bookkeeping done when thread t enters a call
Start(t, name) ==
  /\ op' = [op EXCEPT ![t] = name]
  /\ afterDead' = [afterDead EXCEPT ![t] =
                     IF deadInc THEN 2 ELSE IF everDead THEN 1 ELSE 0]
  /\ afterZero' = [afterZero EXCEPT ![t] = zeroRead]

\* ---- Increment ------------------------------------------------------------
\* if (counter_.fetch_add(1) & is_zero) return false; return true;
Increment(t) ==
  /\ pc[t] = "idle"
  /\ nInc < MaxInc
  /\ Start(t, "Increment")
  /\ Track(t, TRUE)
  /\ counter_' = FetchAdd(counter_)
  /\ ret' = [ret EXCEPT ![t] = IncResult(counter_)]
  /\ held' = held + IncResult(counter_)
  /\ nInc' = nInc + 1
  /\ everDead' = (everDead \/ DeadBit(counter_'))
  /\ deadInc' = (deadInc \/ everDead)
  /\ helped' = [helped EXCEPT ![t] = FALSE]
  /\ revived' = [revived EXCEPT ![t] = FALSE]
  /\ UNCHANGED <<pc, v, nRead, nDec, winners, consumed, zeroRead>>

\* ---- Decrement ------------------------------------------------------------
\* if (counter_.fetch_sub(1) == 1) { uint64_t v = 0; ... } return false;
DecrementSub(t) ==
  /\ pc[t] = "idle"
  /\ held > 0
  /\ Start(t, "Decrement")
  /\ Track(t, FALSE)
  /\ held' = held - 1
  /\ nDec' = nDec + 1
  /\ counter_' = FetchSub(counter_)
  /\ v' = [v EXCEPT ![t] = 0]
  /\ helped' = [helped EXCEPT ![t] = FALSE]
  /\ revived' = [revived EXCEPT ![t] = FALSE]
  /\ IF SubWasLast(counter_)
       THEN /\ pc' = [pc EXCEPT ![t] = "dec_cas1"]
            /\ ret' = ret
       ELSE /\ pc' = pc
            /\ ret' = [ret EXCEPT ![t] = 0]
  /\ everDead' = (everDead \/ DeadBit(counter_'))
  /\ UNCHANGED <<nInc, nRead, winners, deadInc, consumed, zeroRead>>

\* if (counter_.compare_exchange_strong(v, is_zero)) return true;   (v == 0)
DecrementCas1(t) ==
  /\ pc[t] = "dec_cas1"
  /\ Track(t, FALSE)
  /\ IF CasOk(counter_, v[t])
       THEN /\ counter_' = is_zero
            /\ pc' = [pc EXCEPT ![t] = "idle"]
            /\ ret' = [ret EXCEPT ![t] = 1]
            /\ winners' = winners + 1
            /\ v' = v
            /\ revived' = revived
       ELSE /\ counter_' = counter_
            /\ v' = [v EXCEPT ![t] = counter_]
            /\ pc' = [pc EXCEPT ![t] = "dec_cas2"]
            /\ revived' = [revived EXCEPT ![t] =
                             ~DeadBit(counter_) /\ ~HelpBit(counter_)]
            /\ UNCHANGED <<ret, winners>>
  /\ everDead' = (everDead \/ DeadBit(counter_'))
  /\ UNCHANGED <<op, held, hist, consumed, zeroRead, afterDead, afterZero,
                 helped>>

\* else if ((v | help) && counter_.compare_exchange_strong(v, is_zero))
\*   return true;
\* return false;
DecrementCas2(t) ==
  /\ pc[t] = "dec_cas2"
  /\ Track(t, FALSE)
  /\ pc' = [pc EXCEPT ![t] = "idle"]
  /\ IF WantSecondCas(v[t]) /\ CasOk(counter_, v[t])
       THEN /\ counter_' = is_zero
            /\ ret' = [ret EXCEPT ![t] = 1]
            /\ winners' = winners + 1
            /\ consumed' = consumed + B2N(HelpBit(counter_))
            /\ v' = v
       ELSE /\ counter_' = counter_
            /\ ret' = [ret EXCEPT ![t] = 0]
            /\ winners' = winners
            /\ consumed' = consumed
            /\ v' = IF WantSecondCas(v[t])
                      THEN [v EXCEPT ![t] = counter_]
                      ELSE v
  /\ everDead' = (everDead \/ DeadBit(counter_'))
  /\ UNCHANGED <<op, held, hist, zeroRead, afterDead, afterZero, helped,
                 revived>>

\* ---- Read -----------------------------------------------------------------
\* uint64_t v = counter_.load();  if (v == 0) {...}
\* return (v & is_zero) ? 0 : v;
\* variant: the is_zero bit is not masked out of the result
ReadResult_NoMask(w) == w

ReadResult(w) == IF BitAnd(w, is_zero) # 0 THEN 0 ELSE w

ReadLoad(t) ==
  /\ pc[t] = "idle"
  /\ nRead < MaxRead
  /\ Start(t, "Read")
  /\ Track(t, TRUE)
  /\ nRead' = nRead + 1
  /\ v' = [v EXCEPT ![t] = counter_]
  /\ helped' = [helped EXCEPT ![t] = FALSE]
  /\ revived' = [revived EXCEPT ![t] = FALSE]
  /\ IF counter_ = 0
       THEN /\ pc' = [pc EXCEPT ![t] = "rd_cas"]
            /\ UNCHANGED <<ret, zeroRead>>
       ELSE /\ pc' = pc
            /\ ret' = [ret EXCEPT ![t] = ReadResult(counter_)]
            /\ zeroRead' = (zeroRead \/ ReadResult(counter_) = 0)
  /\ UNCHANGED <<counter_, held, nInc, nDec, winners, everDead, deadInc,
                 consumed>>

\* variant: a failed compare_exchange_strong is retried in a loop
ReadCas_Retry(t) ==
  /\ pc[t] = "rd_cas"
  /\ Track(t, TRUE)
  /\ IF CasOk(counter_, v[t])
       THEN /\ counter_' = ReadHelpWord
            /\ pc' = [pc EXCEPT ![t] = "idle"]
            /\ ret' = [ret EXCEPT ![t] = 0]
            /\ zeroRead' = TRUE
            /\ v' = v
            /\ helped' = [u \in Threads |->
                            IF pc[u] = "dec_cas1" THEN TRUE ELSE helped[u]]
       ELSE /\ counter_' = counter_
            /\ pc' = pc
            /\ v' = [v EXCEPT ![t] = counter_]
            /\ UNCHANGED <<ret, zeroRead, helped>>
  /\ everDead' = (everDead \/ DeadBit(counter_'))
  /\ UNCHANGED <<op, held, hist, winners, consumed, afterDead, afterZero,
                 revived>>

\* if (counter_.compare_exchange_strong(v, is_zero | help)) return 0;
\* return (v & is_zero) ? 0 : v;
ReadCas(t) ==
  /\ pc[t] = "rd_cas"
  /\ Track(t, TRUE)
  /\ pc' = [pc EXCEPT ![t] = "idle"]
  /\ IF CasOk(counter_, v[t])
       THEN /\ counter_' = ReadHelpWord
            /\ ret' = [ret EXCEPT ![t] = 0]
            /\ zeroRead' = TRUE
            /\ v' = v
            /\ helped' = [u \in Threads |->
                            IF pc[u] = "dec_cas1" THEN TRUE ELSE helped[u]]
       ELSE /\ counter_' = counter_
            /\ v' = [v EXCEPT ![t] = counter_]
            /\ ret' = [ret EXCEPT ![t] = ReadResult(counter_)]
            /\ zeroRead' = (zeroRead \/ ReadResult(counter_) = 0)
            /\ helped' = helped
  /\ everDead' = (everDead \/ DeadBit(counter_'))
  /\ UNCHANGED <<op, held, hist, winners, consumed, afterDead, afterZero,
                 revived>>

\* ---- specification --------------------------------------------------------
Next ==
  \/ \E t \in Threads : Increment(t)
  \/ \E t \in Threads : DecrementSub(t)
  \/ \E t \in Threads : DecrementCas1(t)
  \/ \E t \in Threads : DecrementCas2(t)
  \/ \E t \in Threads : ReadLoad(t)
  \/ \E t \in Threads : ReadCas(t)

Spec == Init /\ [][Next]_vars

TypeOK ==
  /\ counter_ \in Words
  /\ pc \in [Threads -> {"idle", "dec_cas1", "dec_cas2", "rd_cas"}]
  /\ v \in [Threads -> Words]
  /\ op \in [Threads -> {"none", "Increment", "Decrement", "Read"}]
  /\ ret \in [Threads -> Words]
  /\ held \in 0..(MaxInc + 1)
  /\ nInc \in 0..MaxInc
  /\ nRead \in 0..MaxRead
  /\ nDec \in 0..(MaxInc + 1)
  /\ winners \in 0..(MaxInc + 1)

\* thread t has finished a call named name
Returned(t, name) == pc[t] = "idle" /\ op[t] = name


\* the step in which thread t's Read returns
ReadReturns(t) == (ReadLoad(t) \/ ReadCas(t)) /\ pc'[t] = "idle"


\* ---- claims ---------------------------------------------------------------

\* C1 (single winner): once every ownership granted so far (the initial one
\* and one per Increment that returned true) has been released by a Decrement
\* that has returned, exactly one of those Decrements returned true.
C1_SingleWinner == AllReleased => winners = 1

\* C2 (at most one winner): in every reachable state, Decrements in flight or
\* not, at most one Decrement has returned true.
C2_AtMostOneWinner == winners <= 1

\* C3 (stickiness): a Read that started after some Read had returned 0
\* returns 0.
C3_Sticky ==
  \A t \in Threads : (Returned(t, "Read") /\ afterZero[t]) => ret[t] = 0

\* C4 (dead flag is a latch): no step takes a word with the is_zero bit set
\* to a word with the bit clear.
C4_DeadLatch == [][DeadBit(counter_) => DeadBit(counter_')]_vars

\* C5 (no premature death): while an ownership is held whose Decrement has not
\* started, the is_zero bit is clear and no Read returns 0.
C5_NoPrematureDeath ==
  [][/\ held' > 0 => ~DeadBit(counter_')
     /\ \A t \in Threads : (held > 0 /\ ReadReturns(t)) => ret'[t] # 0]_vars

\* C6 (Decrement racing Increment): a Decrement whose fetch_sub returned 1 and
\* whose first CAS found the word revived (nonzero count, both flags clear)
\* returns false and its remaining step leaves the word as it is.
C6_RevivedReturnsFalse ==
  [][\A t \in Threads :
       (revived[t] /\ DecrementCas2(t)) =>
          (ret'[t] = 0 /\ counter_' = counter_)]_vars

\* C7 (helping completes): a Decrement that was between its fetch_sub (which
\* returned 1) and its first CAS when a Read's CAS to is_zero|help succeeded
\* returns true, and at most one Decrement consumes the help bit.
C7_HelpedReturnsTrue ==
  /\ \A t \in Threads : (Returned(t, "Decrement") /\ helped[t]) => ret[t] = 1
  /\ consumed <= 1

\* C8 (idempotent deadness): an Increment that starts after the is_zero bit
\* has been set returns false, and a Read that starts after such an Increment
\* returns 0.
C8_IdempotentDead ==
  \A t \in Threads :
    /\ (Returned(t, "Increment") /\ afterDead[t] >= 1) => ret[t] = 0
    /\ (Returned(t, "Read") /\ afterDead[t] = 2) => ret[t] = 0

\* C9 (Read's range): every value Read returns is below 2^CountBits, i.e. has
\* neither the help bit nor the is_zero bit.
C9_ReadRange ==
  \A t \in Threads : Returned(t, "Read") => ret[t] \in 0..(help - 1)

\* C10 (assist flag): whenever the help bit of the word is set, a Decrement
\* whose fetch_sub returned 1 has not returned yet.
C10_HelpImpliesDecInFlight == HelpBit(counter_) => DecInFlight

\* the step in which thread t's Decrement returns
DecReturns(t) ==
  (DecrementSub(t) \/ DecrementCas1(t) \/ DecrementCas2(t)) /\ pc'[t] = "idle"

\* C11 (fan-out): in a history where no Increment or Read step fell between
\* the start of the first Decrement and the return of the last one, once all
\* Decrements have returned exactly one of them returned true (the others
\* false), and every Read started after that returns 0.
C11_FanOut ==
  /\ (quiet /\ nDec > 0 /\ AllReleased) => winners = 1
  /\ \A t \in Threads :
       (quiet /\ Returned(t, "Decrement")) => ret[t] \in {0, 1}
  /\ \A t \in Threads :
       (quiet /\ Returned(t, "Read") /\ afterRel[t]) => ret[t] = 0

\* three Decrements released a count of three, then a Read ran
C11_Witness ==
  /\ quiet /\ AllReleased /\ nDec >= 3 /\ winners = 1
  /\ \E t \in Threads : Returned(t, "Read") /\ afterRel[t] /\ ret[t] = 0

\* C12 (sequential behaviour): in a run where every call finishes before the
\* next starts, all Increments come first and all Decrements next: a Read
\* before the Decrements returns 1 + the number of Increments (1 on a fresh
\* counter) and each Increment returns true; of the Decrements only the one
\* that releases the last ownership returns true; after it Read returns 0 and
\* Increment returns false.
C12_Sequential ==
  [][\A t \in Threads :
       (seq' /\ quiet') =>
         /\ ReadReturns(t) => ret'[t] = (IF nDec = 0 THEN nInc + 1 ELSE 0)
         /\ Increment(t) => ret'[t] = (IF nDec = 0 THEN 1 ELSE 0)
         /\ DecReturns(t) => ret'[t] = (IF held' = 0 THEN 1 ELSE 0)]_vars

\* a sequential run: Increment, two Decrements, then Read, Increment, Read
C12_Witness ==
  /\ seq /\ quiet /\ AllReleased /\ nDec >= 2 /\ winners = 1
  /\ \E t \in Threads : Returned(t, "Read") /\ afterDead[t] = 2 /\ ret[t] = 0

\* the most atomic accesses of counter_ a call makes
StepBound(name) ==
  CASE name = "Increment" -> 1
    [] name = "Read" -> 2
    [] name = "Decrement" -> 3
    [] OTHER -> 0

\* the next step of a thread that is inside a call
OwnStep(t) == DecrementCas1(t) \/ DecrementCas2(t) \/ ReadCas(t)

\* C13 (non-blocking progress): no call makes more atomic accesses than its
\* bound (Increment 1, Read 2, Decrement 3), and a thread inside a call has
\* not used up its bound and can always take its next step, whatever the
\* other threads are doing and wherever they are stopped.
C13_NonBlocking ==
  \A t \in Threads :
    /\ steps[t] <= StepBound(op[t])
    /\ pc[t] # "idle" => (steps[t] < StepBound(op[t]) /\ ENABLED OwnStep(t))

\* a Decrement used all three accesses and returned while another thread is
\* stopped in the middle of its call
C13_Witness ==
  \E t, u \in Threads :
    /\ t # u
    /\ Returned(t, "Decrement") /\ steps[t] = 3
    /\ pc[u] # "idle"

\* C14 (Increment's result): every Increment stores the old word plus one
\* (modulo the word size) and returns false exactly when the top bit
\* (is_zero) of the old word is set, true otherwise.
C14_IncrementResult ==
  [][\A t \in Threads :
       Increment(t) =>
         /\ counter_' = (counter_ + 1) % (4 * help)
         /\ ret'[t] \in {0, 1}
         /\ ret'[t] = 0 <=> (counter_ \div (2 * help)) % 2 = 1]_vars

\* an Increment returned true on the clean zero left by a Decrement that is
\* still before its first CAS
C14_Witness ==
  \E t, u \in Threads :
    /\ Returned(t, "Increment") /\ ret[t] = 1
    /\ pc[u] = "dec_cas1" /\ counter_ = 1 /\ held = 1 /\ nInc = 1

\* C18 (Read's frame): Read's load never changes the word; Read's CAS changes
\* it only from clean zero, and then to is_zero|help; a failed CAS leaves it.
C18_ReadFrame ==
  [][\A t \in Threads :
       /\ ReadLoad(t) => counter_' = counter_
       /\ ReadCas(t) =>
            IF counter_ = 0 /\ v[t] = 0
              THEN counter_' = is_zero + help
              ELSE counter_' = counter_]_vars

\* a Read loaded a clean zero, its CAS succeeded and left is_zero|help
C18_Witness ==
  \E t \in Threads :
    /\ Returned(t, "Read") /\ steps[t] = 2 /\ ret[t] = 0 /\ v[t] = 0
    /\ counter_ = is_zero + help

\* C15 (second CAS needs the help bit): a Decrement that lost its first CAS
\* and observed a word without the help bit attempts no second CAS (the word
\* stays as it is) and returns false; it returns true only if the observed
\* word carries the help bit.
C15_SecondCasNeedsHelp ==
  [][\A t \in Threads :
       DecrementCas2(t) =>
         /\ ~HelpBit(v[t]) => (ret'[t] = 0 /\ counter_' = counter_)
         /\ ret'[t] = 1 => HelpBit(v[t])]_vars

\* C16 (Decrement that is not the last): a Decrement whose fetch_sub returned
\* a word other than 1 returns false at once, the word is the old word minus
\* one, and neither flag bit changes.
C16_NonLastDecrementFrame ==
  [][\A t \in Threads :
       (DecrementSub(t) /\ counter_ # 1) =>
         /\ pc'[t] = "idle" /\ ret'[t] = 0 /\ steps'[t] = 1
         /\ counter_' = (counter_ + 4 * help - 1) % (4 * help)
         /\ DeadBit(counter_') = DeadBit(counter_)
         /\ HelpBit(counter_') = HelpBit(counter_)]_vars

\* the word value a returning Read last observed or itself wrote
ReadObserved(t) ==
  IF pc[t] = "rd_cas" /\ counter_ = v[t] THEN is_zero + help ELSE counter_

\* C17 (Read's result): Read returns 0 exactly when the is_zero bit is set in
\* the word it last observed or wrote; otherwise it returns the live count of
\* the observed word, which is nonzero.
C17_ReadResult ==
  [][\A t \in Threads :
       ReadReturns(t) =>
         /\ ret'[t] = 0 <=> DeadBit(ReadObserved(t))
         /\ ~DeadBit(ReadObserved(t)) =>
              (ret'[t] = LiveCount(ReadObserved(t)) /\ ret'[t] # 0)]_vars

\* C19 (no underflow): whenever a Decrement executes its fetch_sub the live
\* count field of the word is at least 1.
C19_NoUnderflow ==
  [][\A t \in Threads : DecrementSub(t) => LiveCount(counter_) >= 1]_vars

\* C20 (what a winning Decrement wrote): a Decrement that returns true has
\* just replaced a word of zero ownership (count field 0, or is_zero set) by
\* exactly is_zero; it never replaces a word with a nonzero count and a clear
\* is_zero bit.
C20_WinnerWroteDead ==
  [][\A t \in Threads :
       (DecReturns(t) /\ ret'[t] = 1) =>
         /\ counter_' = is_zero
         /\ (LiveCount(counter_) = 0 \/ DeadBit(counter_))]_vars

====
